---- MODULE Spec2Model ----
(***************************************************************************)
(* The chess rules engine of src/src/game.rs: board, pseudo-legal move     *)
(* generation, the legality filter (validate_move), make_move/unmake_move  *)
(* and the two public mutations request_move and                           *)
(* unmake_move_and_recalculate.                                            *)
(*                                                                         *)
(* Squares are <<row, col>> as in the source (row 0 is Black's back rank,  *)
(* row 7 is White's).  Option::None is the string "None" for piece kinds   *)
(* and castling tags, NoPiece for a board cell and NoSquare for a square.  *)
(* A panic of the program (an out-of-range board index, unwrap of None) is *)
(* recorded in the field/variable fault; a faulted program takes no step.  *)
(***************************************************************************)
EXTENDS Integers, Sequences, FiniteSets, TLC

VARIABLES board, turn, castling_rights, en_passant_target_square,
          halfmove_clock, fullmove_number, moves, legal_moves, fault

vars == <<board, turn, castling_rights, en_passant_target_square,
          halfmove_clock, fullmove_number, moves, legal_moves, fault>>

\* Longest history the exploration commits (request_move is not taken beyond it).
MaxPly == 10

\* How far beyond the board's edges the coordinates asked of piece_at_square go.
OffBoard == 2

Rows == 0..7

None == "None"

NoSquare == <<>>

NoPiece == [piece_type |-> None, color |-> None]

Piece(t, c) == [piece_type |-> t, color |-> c]

invert(c) == IF c = "Black" THEN "White" ELSE "Black"

NoRights ==
    [white_queenside |-> FALSE, white_kingside |-> FALSE,
     black_queenside |-> FALSE, black_kingside |-> FALSE]

DefaultRights ==
    [white_queenside |-> TRUE, white_kingside |-> TRUE,
     black_queenside |-> TRUE, black_kingside |-> TRUE]

DefaultMove ==
    [from |-> <<0, 0>>, to |-> <<0, 0>>, capture |-> None, castle |-> None,
     losing_castle_rights |-> NoRights, promotion |-> None,
     en_passant_capture |-> NoSquare, en_passant_target_square |-> NoSquare,
     halfmove_clock |-> 0]

\* is_valid_square returns Some(square) or None; the model keeps the test.
is_valid_square(sq) == sq[1] \in Rows /\ sq[2] \in Rows

\* Mutant of piece_at_square: the coordinate is wrapped onto the board instead
\* of being tested.
piece_at_square_wrapped(self, sq) == self.board[sq[1] % 8][sq[2] % 8]

piece_at_square(self, sq) ==
    IF is_valid_square(sq) THEN self.board[sq[1]][sq[2]] ELSE NoPiece

\* Option<Move> is a sequence of at most one move.
generic_move(self, from, to) ==
    IF ~is_valid_square(to) THEN <<>>
    ELSE LET color == piece_at_square(self, from).color
             capture == piece_at_square(self, to)
         IN  IF capture = NoPiece
             THEN << [DefaultMove EXCEPT !.from = from, !.to = to,
                        !.halfmove_clock = (self.halfmove_clock + 1) % 256] >>
             ELSE IF capture.color # color
                  THEN << [DefaultMove EXCEPT !.from = from, !.to = to,
                             !.capture = capture.piece_type] >>
                  ELSE <<>>

----------------------------------------------------------------------------
(* Pawn *)

pawn_direction(color) == IF color = "Black" THEN 1 ELSE -1

\* Mutant of is_en_passant_target: only the file of the target is compared.
is_en_passant_target_file(self, capture_square) ==
    /\ self.en_passant_target_square # NoSquare
    /\ capture_square[2] = self.en_passant_target_square[2]

\* Some(capture_square) == self.en_passant_target_square
is_en_passant_target(self, capture_square) ==
    capture_square = self.en_passant_target_square

pawn_capture(self, square, piece_some, capture_direction) ==
    LET row == square[1]
        col == square[2]
        torow == row + pawn_direction(piece_some.color)
        capture_square == <<torow, col + capture_direction>>
    IN  IF ~is_valid_square(capture_square) THEN <<>>
        ELSE LET capture == piece_at_square(self, capture_square)
             IN  IF capture # NoPiece
                 THEN IF capture.color # piece_some.color
                      THEN << [DefaultMove EXCEPT !.from = square,
                                 !.to = capture_square,
                                 !.capture = capture.piece_type] >>
                      ELSE <<>>
                 ELSE IF is_en_passant_target(self, capture_square)
                      THEN << [DefaultMove EXCEPT !.from = square,
                                 !.to = capture_square, !.capture = "Pawn",
                                 !.en_passant_capture =
                                     <<row, col + capture_direction>>] >>
                      ELSE <<>>

\* Mutant of pawn_forward: the two-square advance is never generated.
pawn_forward_single(self, square, piece_some) ==
    IF piece_at_square(self, <<square[1] + pawn_direction(piece_some.color),
                               square[2]>>) = NoPiece
    THEN << [DefaultMove EXCEPT
               !.from = square,
               !.to = <<square[1] + pawn_direction(piece_some.color),
                        square[2]>>] >>
    ELSE <<>>

pawn_forward(self, square, piece_some) ==
    LET row == square[1]
        col == square[2]
        direction == pawn_direction(piece_some.color)
        one_ahead == <<row + direction, col>>
        two_ahead == <<row + direction * 2, col>>
    IN  IF piece_at_square(self, one_ahead) = NoPiece
        THEN << [DefaultMove EXCEPT !.from = square, !.to = one_ahead] >>
             \o (IF /\ \/ (row = 6 /\ piece_some.color = "White")
                       \/ (row = 1 /\ piece_some.color = "Black")
                    /\ piece_at_square(self, two_ahead) = NoPiece
                 THEN << [DefaultMove EXCEPT !.from = square, !.to = two_ahead,
                            !.en_passant_target_square =
                                <<row + direction, col>>] >>
                 ELSE <<>>)
        ELSE <<>>

\* Mutant of promotion_variants: only the Queen variant is pushed.
promotion_variants_queen_only(pawn_moves) ==
    [i \in 1..Len(pawn_moves) |-> [pawn_moves[i] EXCEPT !.promotion = "Queen"]]

\* Each pawn move becomes its Queen variant followed by its Knight variant.
promotion_variants(pawn_moves) ==
    [i \in 1..(2 * Len(pawn_moves)) |->
        [pawn_moves[(i + 1) \div 2] EXCEPT
            !.promotion = IF i % 2 = 1 THEN "Queen" ELSE "Knight"]]

pawn_moves_on_square(self, square, piece_some) ==
    LET torow == square[1] + pawn_direction(piece_some.color)
        pawn_moves == pawn_capture(self, square, piece_some, -1)
                      \o pawn_capture(self, square, piece_some, 1)
                      \o pawn_forward(self, square, piece_some)
        promotion == torow = 7 \/ torow = 0
    IN  IF promotion THEN promotion_variants(pawn_moves) ELSE pawn_moves

----------------------------------------------------------------------------
(* Knight and king *)

KNIGHT_MOVES ==
    << <<-2, -1>>, <<-1, -2>>, <<-2, 1>>, <<1, -2>>,
       <<2, -1>>, <<-1, 2>>, <<2, 1>>, <<1, 2>> >>

KING_MOVES ==
    << <<-1, -1>>, <<-1, 0>>, <<-1, 1>>, <<0, -1>>,
       <<0, 1>>, <<1, -1>>, <<1, 0>>, <<1, 1>> >>

RECURSIVE offset_moves(_, _, _, _)
\* for mov in OFFSETS { if let Some(m) = generic_move(..) { moves.push(m) } }
offset_moves(self, square, offsets, i) ==
    IF i > Len(offsets) THEN <<>>
    ELSE generic_move(self, square,
                      <<square[1] + offsets[i][1], square[2] + offsets[i][2]>>)
         \o offset_moves(self, square, offsets, i + 1)

lose_all_castling(self, color) ==
    [white_queenside |-> color = "White" /\ self.castling_rights.white_queenside,
     white_kingside  |-> color = "White" /\ self.castling_rights.white_kingside,
     black_queenside |-> color = "Black" /\ self.castling_rights.black_queenside,
     black_kingside  |-> color = "Black" /\ self.castling_rights.black_kingside]

castle_kingside_moves(self, square, piece_some) ==
    LET row == square[1]
        castling_kingside == IF piece_some.color = "Black"
                             THEN self.castling_rights.black_kingside
                             ELSE self.castling_rights.white_kingside
    IN  IF /\ castling_kingside
           /\ piece_at_square(self, <<row, 5>>) = NoPiece
           /\ piece_at_square(self, <<row, 6>>) = NoPiece
        THEN << [DefaultMove EXCEPT !.from = square, !.to = <<row, 6>>,
                   !.castle = IF piece_some.color = "Black"
                              THEN "BlackKingside" ELSE "WhiteKingside",
                   !.losing_castle_rights =
                       lose_all_castling(self, piece_some.color),
                   !.halfmove_clock = (self.halfmove_clock + 1) % 256] >>
        ELSE <<>>

castle_queenside_moves(self, square, piece_some) ==
    LET row == square[1]
        castling_queenside == IF piece_some.color = "Black"
                              THEN self.castling_rights.black_queenside
                              ELSE self.castling_rights.white_queenside
    IN  IF /\ castling_queenside
           /\ piece_at_square(self, <<row, 1>>) = NoPiece
           /\ piece_at_square(self, <<row, 2>>) = NoPiece
           /\ piece_at_square(self, <<row, 3>>) = NoPiece
        THEN << [DefaultMove EXCEPT !.from = square, !.to = <<row, 2>>,
                   !.castle = IF piece_some.color = "Black"
                              THEN "BlackQueenside" ELSE "WhiteQueenside",
                   !.losing_castle_rights =
                       lose_all_castling(self, piece_some.color)] >>
        ELSE <<>>

king_moves_on_square(self, square, piece_some) ==
    offset_moves(self, square, KING_MOVES, 1)
    \o castle_kingside_moves(self, square, piece_some)
    \o castle_queenside_moves(self, square, piece_some)

----------------------------------------------------------------------------
(* Rook, bishop, queen *)

ROOK_DIRS == << <<1, 0>>, <<0, 1>>, <<-1, 0>>, <<0, -1>> >>

BISHOP_DIRS == << <<1, 1>>, <<-1, 1>>, <<1, -1>>, <<-1, -1>> >>

\* Mutant of rook_rights_delta: the corner's right is stamped as lost whether
\* or not it is still held.
rook_rights_delta_unconditional(self, square, piece_some, m) ==
    IF piece_some.piece_type # "Rook" THEN m
    ELSE IF piece_some.color = "Black"
    THEN IF square = <<0, 0>>
         THEN [m EXCEPT !.losing_castle_rights.black_queenside = TRUE]
         ELSE IF square = <<0, 7>>
         THEN [m EXCEPT !.losing_castle_rights.black_kingside = TRUE]
         ELSE m
    ELSE IF square = <<7, 0>>
         THEN [m EXCEPT !.losing_castle_rights.white_queenside = TRUE]
         ELSE IF square = <<7, 7>>
         THEN [m EXCEPT !.losing_castle_rights.white_kingside = TRUE]
         ELSE m

\* "handle castling rights": only for piece_type == Rook, on a home corner.
rook_rights_delta(self, square, piece_some, m) ==
    LET row == square[1]
        col == square[2]
        rights == self.castling_rights
    IN  IF piece_some.piece_type # "Rook" THEN m
        ELSE IF piece_some.color = "Black"
        THEN IF row = 0 /\ col = 0
             THEN [m EXCEPT !.losing_castle_rights.black_queenside =
                                rights.black_queenside]
             ELSE IF row = 0 /\ col = 7
             THEN [m EXCEPT !.losing_castle_rights.black_kingside =
                                rights.black_kingside]
             ELSE m
        ELSE IF row = 7 /\ col = 0
             THEN [m EXCEPT !.losing_castle_rights.white_queenside =
                                rights.white_queenside]
             ELSE IF row = 7 /\ col = 7
             THEN [m EXCEPT !.losing_castle_rights.white_kingside =
                                rights.white_kingside]
             ELSE m

RECURSIVE ray_moves(_, _, _, _, _)
\* Mutant of ray_from: the ray goes on behind a captured piece.
ray_from_through(self, square, piece_some, dir, k, gm) ==
    IF gm = <<>> THEN <<>>
    ELSE << rook_rights_delta(self, square, piece_some, gm[1]) >>
         \o ray_moves(self, square, piece_some, dir, k + 1)

\* while let Some(m) = generic_move(square, square + offset): push, stop after
\* a capture, else offset += dir.  k is the number of steps of the offset and
\* gm the result of generic_move for it.
ray_from(self, square, piece_some, dir, k, gm) ==
    IF gm = <<>> THEN <<>>
    ELSE IF gm[1].capture # None
    THEN << rook_rights_delta(self, square, piece_some, gm[1]) >>
    ELSE << rook_rights_delta(self, square, piece_some, gm[1]) >>
         \o ray_moves(self, square, piece_some, dir, k + 1)

ray_moves(self, square, piece_some, dir, k) ==
    ray_from(self, square, piece_some, dir, k,
             generic_move(self, square,
                          <<square[1] + k * dir[1], square[2] + k * dir[2]>>))

repeated_moves_on_direction(self, square, piece_some, dirs) ==
    ray_moves(self, square, piece_some, dirs[1], 1)
    \o ray_moves(self, square, piece_some, dirs[2], 1)
    \o ray_moves(self, square, piece_some, dirs[3], 1)
    \o ray_moves(self, square, piece_some, dirs[4], 1)

sliding_moves_on_square(self, square, piece_some) ==
    (IF piece_some.piece_type \in {"Rook", "Queen"}
     THEN repeated_moves_on_direction(self, square, piece_some, ROOK_DIRS)
     ELSE <<>>)
    \o (IF piece_some.piece_type \in {"Bishop", "Queen"}
        THEN repeated_moves_on_direction(self, square, piece_some, BISHOP_DIRS)
        ELSE <<>>)

----------------------------------------------------------------------------
(* The pseudo-legal generator *)

compute_legal_moves_on_square(self, square) ==
    LET piece_some == piece_at_square(self, square)
    IN  IF piece_some = NoPiece THEN <<>>
        ELSE IF piece_some.color # self.turn THEN <<>>
        ELSE CASE piece_some.piece_type = "Pawn" ->
                    pawn_moves_on_square(self, square, piece_some)
               [] piece_some.piece_type = "Knight" ->
                    offset_moves(self, square, KNIGHT_MOVES, 1)
               [] piece_some.piece_type = "King" ->
                    king_moves_on_square(self, square, piece_some)
               [] OTHER ->
                    sliding_moves_on_square(self, square, piece_some)

----------------------------------------------------------------------------
(* Apply and Undo.  Every step after a fault is skipped: the program has    *)
(* panicked and the rest of the function does not run.                      *)

\* board[to] = board[from].take(): the source is read and emptied first, then
\* the destination is indexed; either index out of 0..7 panics.
move_piece(self, from, to) ==
    IF self.fault THEN self
    ELSE IF ~is_valid_square(from) THEN [self EXCEPT !.fault = TRUE]
    ELSE IF ~is_valid_square(to)
    THEN [self EXCEPT !.board[from[1]][from[2]] = NoPiece, !.fault = TRUE]
    ELSE [self EXCEPT !.board = [[@ EXCEPT ![from[1]][from[2]] = NoPiece]
                                   EXCEPT ![to[1]][to[2]] =
                                       self.board[from[1]][from[2]]]]

\* self.board[sq.0 as usize][sq.1 as usize] = value
set_square(self, sq, value) ==
    IF self.fault THEN self
    ELSE IF ~is_valid_square(sq) THEN [self EXCEPT !.fault = TRUE]
    ELSE [self EXCEPT !.board[sq[1]][sq[2]] = value]

\* self.board[..][..].unwrap().piece_type = kind: Option<Piece> is Copy and
\* unwrap takes it by value, so the assignment writes a temporary and the board
\* keeps its piece; the indexing and the unwrap still panic on a bad index or
\* an empty square.
assign_unwrapped_piece_type(self, sq, kind) ==
    IF self.fault THEN self
    ELSE IF ~is_valid_square(sq) THEN [self EXCEPT !.fault = TRUE]
    ELSE IF self.board[sq[1]][sq[2]] = NoPiece THEN [self EXCEPT !.fault = TRUE]
    ELSE self

castle_rook_from(c) ==
    CASE c = "BlackKingside" -> <<0, 7>>
      [] c = "BlackQueenside" -> <<0, 0>>
      [] c = "WhiteKingside" -> <<7, 7>>
      [] c = "WhiteQueenside" -> <<7, 0>>

castle_rook_to(c) ==
    CASE c = "BlackKingside" -> <<0, 5>>
      [] c = "BlackQueenside" -> <<0, 3>>
      [] c = "WhiteKingside" -> <<7, 5>>
      [] c = "WhiteQueenside" -> <<7, 3>>

rights_and_not(rights, losing) ==
    [white_queenside |-> rights.white_queenside /\ ~losing.white_queenside,
     white_kingside  |-> rights.white_kingside /\ ~losing.white_kingside,
     black_queenside |-> rights.black_queenside /\ ~losing.black_queenside,
     black_kingside  |-> rights.black_kingside /\ ~losing.black_kingside]

rights_or(rights, losing) ==
    [white_queenside |-> rights.white_queenside \/ losing.white_queenside,
     white_kingside  |-> rights.white_kingside \/ losing.white_kingside,
     black_queenside |-> rights.black_queenside \/ losing.black_queenside,
     black_kingside  |-> rights.black_kingside \/ losing.black_kingside]

\* self.en_passant_target_square = mov.en_passant_target_square
applied_en_passant_target(self, mov) == mov.en_passant_target_square

\* make_move, "full move clock", "half move clock", "en passant move"
apply_clocks_and_target(self, mov) ==
    [self EXCEPT
        !.fullmove_number = IF self.turn = "Black" THEN (@ + 1) % 65536 ELSE @,
        !.halfmove_clock = mov.halfmove_clock,
        !.en_passant_target_square = applied_en_passant_target(self, mov)]

\* make_move, "en passant capture"
apply_en_passant_capture(self, mov) ==
    IF mov.en_passant_capture # NoSquare
    THEN set_square(self, mov.en_passant_capture, NoPiece)
    ELSE self

\* make_move, "castling rook"
apply_castling_rook(self, mov) ==
    IF mov.castle # None
    THEN move_piece(self, castle_rook_from(mov.castle), castle_rook_to(mov.castle))
    ELSE self

\* make_move, "castling rights"
apply_castling_rights(self, mov) ==
    IF self.fault THEN self
    ELSE [self EXCEPT !.castling_rights =
             rights_and_not(@, mov.losing_castle_rights)]

\* make_move, "promotion"
apply_promotion(self, mov) ==
    IF mov.promotion # None
    THEN assign_unwrapped_piece_type(self, mov.from, mov.promotion)
    ELSE self

\* Mutant of push_move: the move is pushed and the turn is left as it is.
push_move_keeping_turn(self, mov) ==
    IF self.fault THEN self
    ELSE [self EXCEPT !.moves = Append(@, mov)]

\* make_move, "push move", "update turn"
push_move(self, mov) ==
    IF self.fault THEN self
    ELSE [self EXCEPT !.moves = Append(@, mov), !.turn = invert(@)]

make_move(self, mov) ==
    push_move(
        move_piece(
            apply_promotion(
                apply_castling_rights(
                    apply_castling_rook(
                        apply_en_passant_capture(
                            apply_clocks_and_target(self, mov), mov), mov), mov),
                mov),
            mov.from, mov.to),
        mov)

\* unmake_move: pop, flip the turn back, move the piece back
undo_relocation(self, mov) ==
    move_piece([self EXCEPT !.moves = SubSeq(@, 1, Len(@) - 1),
                            !.turn = invert(@)],
               mov.to, mov.from)

\* Mutant of restored_en_passant_target: Undo always clears the target.
restored_en_passant_target_cleared(self) == NoSquare

\* unmake_move, "en passant move": the target of the new last move, if any
restored_en_passant_target(self) ==
    IF self.moves = <<>> THEN NoSquare
    ELSE self.moves[Len(self.moves)].en_passant_target_square

\* unmake_move, "full move clock", "half move clock", "en passant move": the
\* clock and the target are read from the new last move of the history.
undo_clocks_and_target(self) ==
    IF self.fault THEN self
    ELSE [self EXCEPT
            !.fullmove_number = IF self.turn = "Black"
                                THEN (@ - 1) % 65536 ELSE @,
            !.halfmove_clock =
                IF self.moves = <<>> THEN 0
                ELSE self.moves[Len(self.moves)].halfmove_clock,
            !.en_passant_target_square = restored_en_passant_target(self)]

\* unmake_move, "en passant capture" else ordinary capture
undo_capture(self, mov) ==
    IF self.fault THEN self
    ELSE IF mov.en_passant_capture # NoSquare
    THEN set_square(self, mov.en_passant_capture,
                    Piece("Pawn", invert(self.turn)))
    ELSE IF mov.capture # None
    THEN set_square(self, mov.to, Piece(mov.capture, invert(self.turn)))
    ELSE self

\* Mutant of undo_castling_rook: Undo leaves the castled rook where it is.
undo_castling_rook_skipped(self, mov) == self

\* unmake_move, "castling rook"
undo_castling_rook(self, mov) ==
    IF mov.castle # None
    THEN move_piece(self, castle_rook_to(mov.castle), castle_rook_from(mov.castle))
    ELSE self

\* unmake_move, "castling rights"
undo_castling_rights(self, mov) ==
    IF self.fault THEN self
    ELSE [self EXCEPT !.castling_rights =
             rights_or(@, mov.losing_castle_rights)]

\* unmake_move, "promotion"
undo_promotion(self, mov) ==
    IF mov.promotion # None
    THEN assign_unwrapped_piece_type(self, mov.from, "Pawn")
    ELSE self

undo_move(self, mov) ==
    undo_promotion(
        undo_castling_rights(
            undo_castling_rook(
                undo_capture(
                    undo_clocks_and_target(undo_relocation(self, mov)), mov),
                mov),
            mov),
        mov)

\* Mutant of unmake_move: the turn is flipped before the history is looked at.
unmake_move_flipping(self) ==
    IF self.moves = <<>>
    THEN [self |-> [self EXCEPT !.turn = invert(@)], ok |-> FALSE]
    ELSE [self |-> undo_move(self, self.moves[Len(self.moves)]), ok |-> TRUE]

\* [self |-> the game afterwards, ok |-> the returned bool]
unmake_move(self) ==
    IF self.moves = <<>> THEN [self |-> self, ok |-> FALSE]
    ELSE [self |-> undo_move(self, self.moves[Len(self.moves)]), ok |-> TRUE]

----------------------------------------------------------------------------
(* The legality filter and the legal-move table *)

\* compute_legal_moves(false): the table of pseudo-legal lists, no probe.
pseudo_legal_table(self) ==
    [row \in Rows |-> [col \in Rows |->
        compute_legal_moves_on_square(self, <<row, col>>)]]

\* self.compute_legal_moves(false)
with_pseudo_legal_table(self) ==
    IF self.fault THEN self
    ELSE [self EXCEPT !.legal_moves = pseudo_legal_table(self)]

list_captures_king(list) ==
    \E i \in DOMAIN list : list[i].capture = "King"

any_king_captures(self) ==
    \E row2 \in Rows, col2 \in Rows :
        list_captures_king(self.legal_moves[row2][col2])

\* Mutant of probe_verdict: the probe does not undo its candidate.
probe_verdict_without_undo(generated) ==
    [self |-> generated, ok |-> ~any_king_captures(generated)]

\* validate_move from "let caps" on: generated is the game after make_move and
\* compute_legal_moves(false).
probe_verdict(generated) ==
    [self |-> with_pseudo_legal_table(unmake_move(generated).self),
     ok |-> ~any_king_captures(generated)]

\* validate_move after make_move: made is the game make_move left.
probe_made(made) ==
    IF made.fault THEN [self |-> made, ok |-> FALSE]
    ELSE probe_verdict(with_pseudo_legal_table(made))

\* [self |-> the game after the probe, ok |-> the returned bool]
validate_move(self, mov) == probe_made(make_move(self, mov))

\* One call of the retain closure: v is validate_move's result for mov.
retained(acc, v, mov) ==
    [self |-> v.self,
     kept |-> IF v.ok THEN Append(acc.kept, mov) ELSE acc.kept]

RECURSIVE retain_validated(_, _, _)
\* square_legal_moves.retain(|m| self.validate_move(m)), in list order.
\* acc = [self |-> game, kept |-> the moves retained so far]
retain_validated(acc, list, i) ==
    IF i > Len(list) \/ acc.self.fault THEN acc
    ELSE retain_validated(
             retained(acc, validate_move(acc.self, list[i]), list[i]),
             list, i + 1)

\* legal_moves[row][col] = square_legal_moves: r is the result of the retain.
square_done(acc, r) ==
    [self |-> r.self, lists |-> Append(acc.lists, r.kept)]

RECURSIVE validated_squares(_, _)
\* The row-major loop of compute_legal_moves(true): each square's list is
\* generated on the game as the earlier probes left it.
\* acc = [self |-> game, lists |-> the lists of squares 0..index-1]
validated_squares(acc, index) ==
    IF index = 64 \/ acc.self.fault THEN acc
    ELSE validated_squares(
             square_done(
                 acc,
                 retain_validated(
                     [self |-> acc.self, kept |-> <<>>],
                     compute_legal_moves_on_square(
                         acc.self, <<index \div 8, index % 8>>),
                     1)),
             index + 1)

\* self.legal_moves = legal_moves, unless a probe panicked on the way.
with_validated_table(r) ==
    IF r.self.fault THEN r.self
    ELSE [r.self EXCEPT !.legal_moves =
             [row \in Rows |-> [col \in Rows |-> r.lists[8 * row + col + 1]]]]

compute_legal_moves(self, validate_king_moves) ==
    IF self.fault THEN self
    ELSE IF ~validate_king_moves THEN with_pseudo_legal_table(self)
    ELSE with_validated_table(
             validated_squares([self |-> self, lists |-> <<>>], 0))

----------------------------------------------------------------------------
(* The public operations *)

unmake_move_and_recalculate(self) ==
    compute_legal_moves(unmake_move(self).self, TRUE)

\* Mutant of first_match: the last entry with the destination is taken.
first_match_last(list, to) ==
    IF \E i \in DOMAIN list : list[i].to = to
    THEN CHOOSE i \in DOMAIN list :
            list[i].to = to /\ \A j \in (i + 1)..Len(list) : list[j].to # to
    ELSE 0

\* Mutant of first_match: the destination is not compared.
first_match_any(list, to) == IF list # <<>> THEN 1 ELSE 0

\* Index of the first entry of list whose destination is to, 0 if none.
first_match(list, to) ==
    IF \E i \in DOMAIN list : list[i].to = to
    THEN CHOOSE i \in DOMAIN list :
            list[i].to = to /\ \A j \in 1..(i - 1) : list[j].to # to
    ELSE 0

\* request_move once the loop has found list[i]
commit_match(self, list, i) ==
    IF i = 0 THEN self
    ELSE compute_legal_moves(make_move(self, list[i]), TRUE)

\* [self |-> the game afterwards, ok |-> the returned bool]
request_move(self, from, to) ==
    [self |-> commit_match(self, self.legal_moves[from[1]][from[2]],
                           first_match(self.legal_moves[from[1]][from[2]], to)),
     ok |-> first_match(self.legal_moves[from[1]][from[2]], to) # 0]

INITIAL_ROW ==
    <<"Rook", "Knight", "Bishop", "Queen", "King", "Bishop", "Knight", "Rook">>

\* impl Default for Game
DefaultGame ==
    compute_legal_moves(
        [board |-> [row \in Rows |-> [col \in Rows |->
                      CASE row = 0 -> Piece(INITIAL_ROW[col + 1], "Black")
                        [] row = 1 -> Piece("Pawn", "Black")
                        [] row = 6 -> Piece("Pawn", "White")
                        [] row = 7 -> Piece(INITIAL_ROW[col + 1], "White")
                        [] OTHER -> NoPiece]],
         turn |-> "White",
         castling_rights |-> DefaultRights,
         en_passant_target_square |-> NoSquare,
         halfmove_clock |-> 0,
         fullmove_number |-> 0,
         moves |-> <<>>,
         legal_moves |-> [row \in Rows |-> [col \in Rows |-> <<>>]],
         fault |-> FALSE],
        TRUE)

----------------------------------------------------------------------------
(* The state machine *)

\* The game object as a record.
Game ==
    [board |-> board, turn |-> turn, castling_rights |-> castling_rights,
     en_passant_target_square |-> en_passant_target_square,
     halfmove_clock |-> halfmove_clock, fullmove_number |-> fullmove_number,
     moves |-> moves, legal_moves |-> legal_moves, fault |-> fault]

Becomes(s) ==
    /\ board' = s.board
    /\ turn' = s.turn
    /\ castling_rights' = s.castling_rights
    /\ en_passant_target_square' = s.en_passant_target_square
    /\ halfmove_clock' = s.halfmove_clock
    /\ fullmove_number' = s.fullmove_number
    /\ moves' = s.moves
    /\ legal_moves' = s.legal_moves
    /\ fault' = s.fault

\* The variables hold the fields of s.
Is(s) ==
    /\ board = s.board
    /\ turn = s.turn
    /\ castling_rights = s.castling_rights
    /\ en_passant_target_square = s.en_passant_target_square
    /\ halfmove_clock = s.halfmove_clock
    /\ fullmove_number = s.fullmove_number
    /\ moves = s.moves
    /\ legal_moves = s.legal_moves
    /\ fault = s.fault

Init == Is(DefaultGame)

\* A request in chess notation: file 1..8 (a..h) and rank 1..8 of the source,
\* then of the destination.  Rank 1 is row 7.
Req(f1, r1, f2, r2) == << <<8 - r1, f1 - 1>>, <<8 - r2, f2 - 1>> >>

\* The games the environment plays: request sequences that drive the program
\* through check, interposition, en passant, castling on both wings, rook and
\* king moves, a capture on a home corner and a promotion.
Games ==
    { \* queen check on a king that walked to e6
      << Req(5,2,5,3), Req(5,7,5,5), Req(4,1,8,5), Req(5,8,5,7), Req(1,2,1,3),
         Req(5,7,5,6), Req(8,5,8,6), Req(4,8,6,6), Req(8,6,6,6) >>,
      \* the same, and the queen takes the king
      << Req(5,2,5,3), Req(5,7,5,5), Req(4,1,8,5), Req(5,8,5,7), Req(1,2,1,3),
         Req(5,7,5,6), Req(8,5,8,6), Req(4,8,6,6), Req(8,6,5,6) >>,
      \* white king walks to e3
      << Req(5,2,5,4), Req(5,7,5,5), Req(5,1,5,2), Req(1,7,1,6), Req(5,2,5,3),
         Req(1,6,1,5), Req(5,3,7,3), Req(1,5,1,4) >>,
      \* a-pawn captures its way to a8
      << Req(1,2,1,4), Req(7,8,6,6), Req(1,4,1,5), Req(6,6,7,8), Req(1,5,1,6),
         Req(7,8,6,6), Req(1,6,2,7), Req(6,6,7,8), Req(2,7,1,8), Req(7,8,6,6) >>,
      \* en passant taken
      << Req(5,2,5,4), Req(1,7,1,6), Req(5,4,5,5), Req(4,7,4,5), Req(5,5,4,6),
         Req(3,7,4,6) >>,
      \* en passant declined, then requested too late
      << Req(5,2,5,4), Req(1,7,1,6), Req(5,4,5,5), Req(4,7,4,5), Req(1,2,1,3),
         Req(1,6,1,5), Req(5,5,4,6) >>,
      \* both sides castle kingside
      << Req(5,2,5,4), Req(5,7,5,5), Req(7,1,6,3), Req(7,8,6,6), Req(6,1,3,4),
         Req(6,8,3,5), Req(5,1,7,1), Req(5,8,7,8), Req(6,1,5,1) >>,
      \* both sides castle queenside
      << Req(4,2,4,4), Req(4,7,4,5), Req(2,1,3,3), Req(2,8,3,6), Req(3,1,6,4),
         Req(3,8,6,5), Req(4,1,4,2), Req(4,8,4,7), Req(5,1,3,1), Req(5,8,3,8) >>,
      \* rooks leave their corners and return
      << Req(1,2,1,4), Req(8,7,8,5), Req(1,1,1,3), Req(8,8,8,6), Req(1,3,1,1),
         Req(8,6,8,8), Req(8,2,8,4), Req(1,7,1,5) >>,
      \* kings step out and back, then castle
      << Req(5,2,5,4), Req(5,7,5,5), Req(5,1,5,2), Req(5,8,5,7), Req(5,2,5,1),
         Req(5,7,5,8), Req(7,1,6,3), Req(7,8,6,6), Req(6,1,3,4), Req(6,8,3,5),
         Req(5,1,7,1), Req(5,8,7,8) >>,
      \* a bishop takes the rook on h8
      << Req(2,2,2,3), Req(7,7,7,6), Req(3,1,2,2), Req(1,7,1,6), Req(2,2,8,8),
         Req(6,8,7,7), Req(1,2,1,3), Req(7,8,6,6), Req(1,3,1,4), Req(5,8,7,8) >>,
      \* fool's mate
      << Req(6,2,6,3), Req(5,7,5,5), Req(7,2,7,4), Req(4,8,8,4), Req(5,1,6,2) >> }

\* Requests made at any time, whatever the position.
Stray ==
    { Req(5,4,5,5), Req(5,1,5,1), Req(4,8,4,1), Req(1,1,1,8) }

\* The requests the environment makes in the current state.
Requests ==
    Stray \cup
    { g[Len(moves) + 1] :
        g \in { h \in Games :
                  /\ Len(moves) < Len(h)
                  /\ \A i \in 1..Len(moves) :
                        <<moves[i].from, moves[i].to>> = h[i] } }

RequestMove ==
    /\ ~fault
    /\ Len(moves) < MaxPly
    /\ \E r \in Requests : Becomes(request_move(Game, r[1], r[2]).self)

UndoLastMove ==
    /\ ~fault
    /\ Becomes(unmake_move_and_recalculate(Game))

Next == RequestMove \/ UndoLastMove

Spec == Init /\ [][Next]_vars

----------------------------------------------------------------------------
(* A long game: the knights go out and back until the half-move clock is    *)
(* close to the top of its u8.                                              *)

\* The largest value of halfmove_clock: u8.
U8_MAX == 255

\* Plies the exploration adds to the shuffle.
MaxLate == 1

\* Ng1-f3, Ng8-f6, Nf3-g1, Nf6-g8: four plies that give the position back.
Shuffle == << Req(7,1,6,3), Req(7,8,6,6), Req(6,3,7,1), Req(6,6,7,8) >>

\* Plies of the shuffle played before the exploration starts: the whole
\* rounds that leave the clock three short of its top.
LatePly == 4 * ((U8_MAX - 3) \div 4)

\* The i-th move of the shuffle as generic_move builds it and request_move
\* pushes it: a quiet move, stamped with the clock it leads to.
ShuffleMove(i) ==
    [DefaultMove EXCEPT !.from = Shuffle[((i - 1) % 4) + 1][1],
                        !.to = Shuffle[((i - 1) % 4) + 1][2],
                        !.halfmove_clock = i]

RECURSIVE Shuffled(_)
\* The game after the first n requests of the repeated shuffle, by replay.
Shuffled(n) ==
    IF n = 0 THEN DefaultGame
    ELSE request_move(Shuffled(n - 1), Shuffle[((n - 1) % 4) + 1][1],
                      Shuffle[((n - 1) % 4) + 1][2]).self

\* Shuffled(n) for n a multiple of four, without the replay: the pieces are
\* back on their squares, White is to move, every move is in the history and
\* counted by both clocks, and the table is recomputed.
ShuffledRounds(n) ==
    compute_legal_moves(
        [DefaultGame EXCEPT !.moves = [i \in 1..n |-> ShuffleMove(i)],
                            !.halfmove_clock = n,
                            !.fullmove_number = n \div 2],
        TRUE)

InitLate == Is(ShuffledRounds(LatePly))

\* The requests made late in the game: the shuffle goes on, or a queen's
\* knight joins it.
LateRequests ==
    { Shuffle[i] : i \in 1..4 }
    \cup { Req(2,1,3,3), Req(2,8,3,6), Req(3,3,2,1), Req(3,6,2,8) }

RequestLate ==
    /\ ~fault
    /\ Len(moves) >= LatePly
    /\ Len(moves) < LatePly + MaxLate
    /\ \E r \in LateRequests : Becomes(request_move(Game, r[1], r[2]).self)

NextLate == RequestLate \/ UndoLastMove

SpecLate == InitLate /\ [][NextLate]_vars

----------------------------------------------------------------------------
(* Properties *)

Squares == Rows \X Rows

Last(list) == list[Len(list)]

\* The cached list of a square.
legal_moves_on_square(sq) == legal_moves[sq[1]][sq[2]]

\* The position a move leads to allows a reply that captures the king.
ExposesKing(self, m) ==
    LET s1 == make_move(self, m)
    IN  /\ ~s1.fault
        /\ any_king_captures([s1 EXCEPT !.legal_moves = pseudo_legal_table(s1)])

\* C1: no move of the cached legal-move table leads to a position in which a
\* pseudo-legal reply of the opponent captures the mover's king.
C1_NoTableMoveExposesKing ==
    ~fault =>
        \A sq \in Squares :
            \A i \in DOMAIN legal_moves_on_square(sq) :
                ~ExposesKing(Game, legal_moves_on_square(sq)[i])

\* Apply then Undo of m from the current game gives back the current game.
RoundTrip(m) ==
    LET a == make_move(Game, m)
        u == unmake_move(a)
    IN  /\ ~a.fault
        /\ u.ok
        /\ u.self.board = board
        /\ u.self.turn = turn
        /\ u.self.castling_rights = castling_rights
        /\ u.self.en_passant_target_square = en_passant_target_square
        /\ u.self.halfmove_clock = halfmove_clock
        /\ u.self.fullmove_number = fullmove_number
        /\ u.self.moves = moves

FilteredMoves(sq) ==
    SelectSeq(compute_legal_moves_on_square(Game, sq),
              LAMBDA m : ~make_move(Game, m).fault /\ ~ExposesKing(Game, m))

\* C3: after every public mutation the cached list of each square is exactly
\* the pseudo-legal moves of that square, for the current board, turn, rights
\* and en-passant target, that pass the legality filter.
C3_TableNeverStale ==
    ~fault => \A sq \in Squares : legal_moves_on_square(sq) = FilteredMoves(sq)

\* C4: no sequence of in-range request_move and undo calls faults.
C4_NeverFaults == ~fault

HomeRow(color) == IF color = "Black" THEN 0 ELSE 7

CornerCol(wing) == IF wing = "Kingside" THEN 7 ELSE 0

Colors == {"White", "Black"}

Wings == {"Kingside", "Queenside"}

\* The castling right of a side and wing in a CastlingRights value.
Held(rights, color, wing) ==
    CASE color = "White" /\ wing = "Kingside" -> rights.white_kingside
      [] color = "White" /\ wing = "Queenside" -> rights.white_queenside
      [] color = "Black" /\ wing = "Kingside" -> rights.black_kingside
      [] color = "Black" /\ wing = "Queenside" -> rights.black_queenside

\* This step is a request_move that committed a move and returned.
Committed == Len(moves') = Len(moves) + 1 /\ ~fault'

\* C5: a committed move of a king clears both rights of its side, a committed
\* move of a rook from a home corner clears that wing's right, and a right
\* that is false stays false across further request_move calls.
C5_MovedPieceLosesRight ==
    [][Committed =>
         LET mov == Last(moves')
             piece == board[mov.from[1]][mov.from[2]]
         IN  /\ piece.piece_type = "King" =>
                   \A wing \in Wings :
                       ~Held(castling_rights', piece.color, wing)
             /\ \A wing \in Wings :
                   (/\ piece.piece_type = "Rook"
                    /\ mov.from = <<HomeRow(piece.color), CornerCol(wing)>>)
                   => ~Held(castling_rights', piece.color, wing)
             /\ \A color \in Colors, wing \in Wings :
                   ~Held(castling_rights, color, wing)
                   => ~Held(castling_rights', color, wing)]_vars

\* C6: a held castling right means the king is on its home square and a rook
\* of that side is on the wing's home corner.
C6_RightImpliesHomeSquares ==
    ~fault =>
        \A color \in Colors, wing \in Wings :
            Held(castling_rights, color, wing) =>
                /\ board[HomeRow(color)][4] = Piece("King", color)
                /\ board[HomeRow(color)][CornerCol(wing)] = Piece("Rook", color)

\* C7: after make_move of a move that carries a promotion kind, the piece on
\* the destination has that kind and the mover's side.
C7_PromotedKindOnDestination ==
    ~fault =>
        \A sq \in Squares :
            \A i \in DOMAIN legal_moves_on_square(sq) :
                LET mov == legal_moves_on_square(sq)[i]
                    s == make_move(Game, mov)
                IN  (mov.promotion # None /\ ~s.fault) =>
                        s.board[mov.to[1]][mov.to[2]]
                            = Piece(mov.promotion, turn)

\* Every move of the list starts and ends on the board.
OnBoard(list) ==
    \A i \in DOMAIN list :
        is_valid_square(list[i].from) /\ is_valid_square(list[i].to)

\* C8: the moves of the cached table, of the pseudo-legal lists of the side to
\* move and of the pseudo-legal reply lists generated inside the probes all
\* have source and destination on the board.
C8_MovesStayOnBoard ==
    ~fault =>
        \A sq \in Squares :
            /\ OnBoard(legal_moves_on_square(sq))
            /\ LET list == compute_legal_moves_on_square(Game, sq)
               IN  /\ OnBoard(list)
                   /\ \A i \in DOMAIN list :
                         LET s == make_move(Game, list[i])
                         IN  ~s.fault =>
                                 \A sq2 \in Squares :
                                     OnBoard(compute_legal_moves_on_square(s, sq2))

CastleTag(color, wing) == color \o wing

BetweenCols(wing) == IF wing = "Kingside" THEN {5, 6} ELSE {1, 2, 3}

\* C9: for the king of the side to move, a castling move of a wing is among
\* its pseudo-legal moves iff the right is held and every square between the
\* king's home square and the wing's home corner is empty.
C9_CastlingOfferedIff ==
    ~fault =>
        \A sq \in Squares :
            board[sq[1]][sq[2]] = Piece("King", turn) =>
                \A wing \in Wings :
                    LET list == compute_legal_moves_on_square(Game, sq)
                    IN  (\E i \in DOMAIN list :
                            list[i].castle = CastleTag(turn, wing))
                        <=> (/\ Held(castling_rights, turn, wing)
                             /\ \A col \in BetweenCols(wing) :
                                   board[HomeRow(turn)][col] = NoPiece)

\* C10: an en-passant capture is in the cached table only when the last
\* committed move is the opponent's two-square pawn advance over the capture's
\* destination.
C10_EnPassantOnlyNextPly ==
    ~fault =>
        \A sq \in Squares :
            \A i \in DOMAIN legal_moves_on_square(sq) :
                LET mov == legal_moves_on_square(sq)[i]
                IN  mov.en_passant_capture # NoSquare =>
                        /\ moves # <<>>
                        /\ LET last == Last(moves)
                           IN  /\ last.from[2] = last.to[2]
                               /\ last.to[1] - last.from[1] \in {2, -2}
                               /\ board[last.to[1]][last.to[2]]
                                      = Piece("Pawn", invert(turn))
                               /\ mov.to = <<(last.from[1] + last.to[1]) \div 2,
                                             last.to[2]>>
                               /\ mov.en_passant_capture = last.to

\* C10 witness: the table offers an en-passant capture.
C10_Witness ==
    /\ ~fault
    /\ \E sq \in Squares : \E i \in DOMAIN legal_moves_on_square(sq) :
          legal_moves_on_square(sq)[i].en_passant_capture # NoSquare

\* The cached list of from has no entry with destination to.
NoEntry(from, to) ==
    \A i \in DOMAIN legal_moves_on_square(from) :
        legal_moves_on_square(from)[i].to # to

\* C11: request_move(from, to) without a table entry of from that goes to to
\* returns false and leaves every field of the game, the cached table
\* included, as it was.
C11_UnmatchedRequestChangesNothing ==
    ~fault =>
        \A from \in Squares, to \in Squares :
            NoEntry(from, to) =>
                request_move(Game, from, to) = [self |-> Game, ok |-> FALSE]

\* C11 witness: in a game under way a square has moves in the table and a
\* request from it to a destination none of them has is refused.
C11_Witness ==
    /\ ~fault
    /\ moves # <<>>
    /\ \E from \in Squares, to \in Squares :
          /\ legal_moves_on_square(from) # <<>>
          /\ NoEntry(from, to)
          /\ ~request_move(Game, from, to).ok

\* The square is empty or holds a piece of the side that is not to move.
NotMoversSquare(sq) ==
    \/ board[sq[1]][sq[2]] = NoPiece
    \/ board[sq[1]][sq[2]].color # turn

\* C12: request_move from a square that is empty or holds a piece of the side
\* not to move returns false for every destination and leaves the position and
\* the history unchanged.
C12_RequestFromForeignSquareFails ==
    ~fault =>
        \A from \in Squares :
            NotMoversSquare(from) =>
                \A to \in Squares :
                    LET r == request_move(Game, from, to)
                    IN  /\ ~r.ok
                        /\ r.self.board = board
                        /\ r.self.turn = turn
                        /\ r.self.castling_rights = castling_rights
                        /\ r.self.en_passant_target_square
                               = en_passant_target_square
                        /\ r.self.halfmove_clock = halfmove_clock
                        /\ r.self.fullmove_number = fullmove_number
                        /\ r.self.moves = moves

\* C13: with an empty history unmake_move returns false and
\* unmake_move_and_recalculate leaves every field of the game, the cached
\* table included, as it was.
C13_UndoOnEmptyHistoryIsNoOp ==
    (~fault /\ moves = <<>>) =>
        /\ ~unmake_move(Game).ok
        /\ unmake_move(Game).self = Game
        /\ unmake_move_and_recalculate(Game) = Game

\* C13 witness: the history is empty and undo has been called on it: the game
\* is what the call returns.
C13_Witness ==
    /\ ~fault
    /\ moves = <<>>
    /\ Is(unmake_move_and_recalculate(Game))

\* validate_move of candidate c on the game self returns without a panic and
\* with the position and the history of self.
ProbeRestores(self, c) ==
    LET v == validate_move(self, c).self
    IN  /\ ~v.fault
        /\ v.board = self.board
        /\ v.turn = self.turn
        /\ v.castling_rights = self.castling_rights
        /\ v.en_passant_target_square = self.en_passant_target_square
        /\ v.halfmove_clock = self.halfmove_clock
        /\ v.fullmove_number = self.fullmove_number
        /\ v.moves = self.moves

\* Every pseudo-legal candidate of the side to move of self is probed without
\* a trace.
ProbeRestoresAll(self) ==
    \A sq \in Squares :
        \A i \in DOMAIN compute_legal_moves_on_square(self, sq) :
            ProbeRestores(self, compute_legal_moves_on_square(self, sq)[i])

\* C14: validate_move on a pseudo-legal candidate of the side to move leaves
\* board, turn, castling rights, en-passant target, both clocks and history as
\* they were, in the states between public calls and in the positions
\* request_move is in when it starts probing (right after make_move of a table
\* move).
C14_ProbeLeavesNoTrace ==
    ~fault =>
        /\ ProbeRestoresAll(Game)
        /\ \A sq \in Squares :
              \A i \in DOMAIN legal_moves_on_square(sq) :
                  LET made == make_move(Game, legal_moves_on_square(sq)[i])
                  IN  ~made.fault => ProbeRestoresAll(made)

LastRank(color) == IF color = "White" THEN 0 ELSE 7

\* list has the move m with promotion kind k.
HasVariant(list, m, k) ==
    \E j \in DOMAIN list : list[j] = [m EXCEPT !.promotion = k]

\* Every move of list onto the last rank of color carries a promotion kind and
\* has its Queen and its Knight variant in list.
PromotesOnLastRank(list, color) ==
    \A i \in DOMAIN list :
        list[i].to[1] = LastRank(color) =>
            /\ list[i].promotion # None
            /\ HasVariant(list, list[i], "Queen")
            /\ HasVariant(list, list[i], "Knight")

\* C15: for every pawn of the side to move, each move onto the last rank, in
\* its pseudo-legal list and in its cached list, carries a promotion kind and
\* comes with both its Queen and its Knight variant.
C15_LastRankMovesPromote ==
    ~fault =>
        \A sq \in Squares :
            board[sq[1]][sq[2]] = Piece("Pawn", turn) =>
                /\ PromotesOnLastRank(compute_legal_moves_on_square(Game, sq),
                                      turn)
                /\ PromotesOnLastRank(legal_moves_on_square(sq), turn)

\* C15 witness: a pawn of the side to move has a move onto the last rank in
\* the table.
C15_Witness ==
    /\ ~fault
    /\ \E sq \in Squares :
          /\ board[sq[1]][sq[2]] = Piece("Pawn", turn)
          /\ \E i \in DOMAIN legal_moves_on_square(sq) :
                legal_moves_on_square(sq)[i].to[1] = LastRank(turn)

\* The entries of the cached table, as (square, index) pairs.
TableEntries ==
    UNION { { <<sq, i>> : i \in DOMAIN legal_moves_on_square(sq) } :
            sq \in Squares }

\* The entries of the cached table whose source holds a piece of kind t.
EntriesOf(t) ==
    { e \in TableEntries : board[e[1][1]][e[1][2]].piece_type = t }

\* The game has the position of Game::default() and no history.
InitialPosition ==
    /\ ~fault
    /\ moves = <<>>
    /\ board = DefaultGame.board
    /\ turn = DefaultGame.turn
    /\ castling_rights = DefaultGame.castling_rights
    /\ en_passant_target_square = DefaultGame.en_passant_target_square

\* C16: in the initial game the cached table holds 20 moves, 16 of pawns and
\* 4 of knights.
C16_TwentyMovesAtStart ==
    InitialPosition =>
        /\ Cardinality(TableEntries) = 20
        /\ Cardinality(EntriesOf("Pawn")) = 16
        /\ Cardinality(EntriesOf("Knight")) = 4

\* C16 witness: the initial game, with moves in its table.
C16_Witness ==
    /\ InitialPosition
    /\ TableEntries # {}

\* C17: across a request_move that commits a move, a castling right that is
\* false stays false.
C17_RightsNeverRegranted ==
    [][Committed =>
         \A color \in Colors, wing \in Wings :
             Held(castling_rights', color, wing)
             => Held(castling_rights, color, wing)]_vars

\* C17 witness: a right is false and was already false before the last two
\* moves of the history (neither of them is the move that revoked it).
C17_Witness ==
    /\ ~fault
    /\ Len(moves) >= 2
    /\ \E color \in Colors, wing \in Wings :
          /\ ~Held(castling_rights, color, wing)
          /\ ~Held(moves[Len(moves)].losing_castle_rights, color, wing)
          /\ ~Held(moves[Len(moves) - 1].losing_castle_rights, color, wing)

\* The coordinates asked of piece_at_square: the board and a margin around it.
Coords == (0 - OffBoard)..(7 + OffBoard)

\* C18: piece_at_square returns the empty cell for every coordinate with a row
\* or a column outside 0..7 and the board cell of the coordinate otherwise.
C18_PieceAtSquareOffBoardIsEmpty ==
    \A row \in Coords, col \in Coords :
        piece_at_square(Game, <<row, col>>)
            = IF row >= 0 /\ row < 8 /\ col >= 0 /\ col < 8
              THEN board[row][col]
              ELSE NoPiece

\* C18 witness: a pawn stands on its last rank, so the generator asks for the
\* square ahead of it, which is off the board, and gets the empty cell.
C18_Witness ==
    /\ ~fault
    /\ \E sq \in Squares, color \in Colors :
          /\ board[sq[1]][sq[2]] = Piece("Pawn", color)
          /\ sq[1] = LastRank(color)
          /\ piece_at_square(Game, <<sq[1] + pawn_direction(color), sq[2]>>)
                 = NoPiece

\* The plies of the history made by Black: White moves first, so they are the
\* even positions.
BlackPlies == { i \in DOMAIN moves : i % 2 = 0 }

\* C19: White is to move iff the history has even length, the full-move number
\* is the number of Black plies in the history, a request_move of the
\* environment that returns true leaves the history one move longer and an undo
\* on a non-empty history one move shorter.
C19_TurnAndFullmoveFollowHistory ==
    ~fault =>
        /\ (turn = "White") <=> (Len(moves) % 2 = 0)
        /\ fullmove_number = Cardinality(BlackPlies)
        /\ \A q \in Requests :
              LET r == request_move(Game, q[1], q[2])
              IN  (r.ok /\ ~r.self.fault) =>
                      Len(r.self.moves) = Len(moves) + 1
        /\ moves # <<>> =>
              LET u == unmake_move_and_recalculate(Game)
              IN  ~u.fault => Len(u.moves) = Len(moves) - 1

\* C19 witness: Black is to move after an odd number of plies, at least three,
\* with one Black ply counted.
C19_Witness ==
    /\ ~fault
    /\ Len(moves) >= 3
    /\ turn = "Black"
    /\ fullmove_number >= 1

\* The last move of the history took a pawn two rows along its column.
LastIsTwoSquareAdvance ==
    /\ moves # <<>>
    /\ Last(moves).from[2] = Last(moves).to[2]
    /\ Last(moves).to[1] - Last(moves).from[1] \in {2, -2}
    /\ board[Last(moves).to[1]][Last(moves).to[2]].piece_type = "Pawn"

\* C20: the en-passant target is the square the pawn passed over when the last
\* move of the history is a two-square pawn advance, and empty after any other
\* move and with an empty history.
C20_TargetFollowsLastMove ==
    ~fault =>
        en_passant_target_square
            = IF LastIsTwoSquareAdvance
              THEN <<(Last(moves).from[1] + Last(moves).to[1]) \div 2,
                     Last(moves).to[2]>>
              ELSE NoSquare

\* C20 witness: the target is set, and the move before the last one was a
\* two-square advance too, so an older target has been replaced.
C20_Witness ==
    /\ ~fault
    /\ en_passant_target_square # NoSquare
    /\ Len(moves) >= 2
    /\ moves[Len(moves) - 1].en_passant_target_square # NoSquare

\* make_move of the castling move m from the current game puts the king on
\* m.to and the rook of the wing's home corner on the square the king crossed,
\* empties the corner, clears both rights of the mover and keeps the
\* opponent's.
CastleApplied(m) ==
    LET s == make_move(Game, m)
        corner == castle_rook_from(m.castle)
        crossed == <<m.from[1], (m.from[2] + m.to[2]) \div 2>>
    IN  /\ ~s.fault
        /\ s.board[m.to[1]][m.to[2]] = Piece("King", turn)
        /\ board[corner[1]][corner[2]] = Piece("Rook", turn)
        /\ s.board[crossed[1]][crossed[2]] = Piece("Rook", turn)
        /\ s.board[corner[1]][corner[2]] = NoPiece
        /\ \A wing \in Wings :
              /\ ~Held(s.castling_rights, turn, wing)
              /\ Held(s.castling_rights, invert(turn), wing)
                     = Held(castling_rights, invert(turn), wing)

\* C21: for every castling move of the cached table, make_move puts the king
\* on the destination, takes the rook from the wing's home corner to the
\* square the king crossed, leaves the mover without castling rights and the
\* opponent's rights as they were.
C21_CastleMovesKingAndRook ==
    ~fault =>
        \A sq \in Squares :
            \A i \in DOMAIN legal_moves_on_square(sq) :
                legal_moves_on_square(sq)[i].castle # None =>
                    CastleApplied(legal_moves_on_square(sq)[i])

\* The directions a sliding piece of kind t moves in.
DirectionSet(t) ==
    CASE t = "Rook" -> { ROOK_DIRS[i] : i \in 1..4 }
      [] t = "Bishop" -> { BISHOP_DIRS[i] : i \in 1..4 }
      [] t = "Queen" -> { ROOK_DIRS[i] : i \in 1..4 }
                        \cup { BISHOP_DIRS[i] : i \in 1..4 }

\* The k-th square from sq in direction dir.
Step(sq, dir, k) == <<sq[1] + k * dir[1], sq[2] + k * dir[2]>>

\* The steps from sq in direction dir that stay on the board and have only
\* empty squares before them.
OpenSteps(sq, dir) ==
    { k \in 1..7 :
        /\ is_valid_square(Step(sq, dir, k))
        /\ \A j \in 1..(k - 1) :
              board[Step(sq, dir, j)[1]][Step(sq, dir, j)[2]] = NoPiece }

\* What the claim allows as a destination: an open step onto an empty square
\* or onto an enemy piece.
RayDestinations(sq, dir) ==
    { Step(sq, dir, k) : k \in { n \in OpenSteps(sq, dir) :
        board[Step(sq, dir, n)[1]][Step(sq, dir, n)[2]].color # turn } }

\* The capture field a move onto sq must carry.
CaptureOn(sq) == board[sq[1]][sq[2]].piece_type

\* C22: the pseudo-legal moves of a rook, bishop or queen of the side to move
\* go, in each of its directions, to exactly the empty squares before the
\* first occupied one and to that one iff it holds an enemy piece, which the
\* move records as its capture; each destination is generated once.
C22_SlidingRaysStopAtFirstPiece ==
    ~fault =>
        \A sq \in Squares :
            (/\ board[sq[1]][sq[2]].color = turn
             /\ board[sq[1]][sq[2]].piece_type \in {"Rook", "Bishop", "Queen"})
            => LET list == compute_legal_moves_on_square(Game, sq)
               IN  /\ { list[i].to : i \in DOMAIN list }
                          = UNION { RayDestinations(sq, dir) :
                                dir \in DirectionSet(board[sq[1]][sq[2]].piece_type) }
                   /\ \A i \in DOMAIN list :
                         /\ list[i].from = sq
                         /\ list[i].capture = CaptureOn(list[i].to)
                         /\ \A j \in DOMAIN list :
                               list[j].to = list[i].to => j = i

\* C22 witness: a sliding piece of the side to move has a capture and a quiet
\* move among its pseudo-legal moves, and a direction blocked by an own piece.
C22_Witness ==
    /\ ~fault
    /\ \E sq \in Squares :
          /\ board[sq[1]][sq[2]].color = turn
          /\ board[sq[1]][sq[2]].piece_type \in {"Rook", "Bishop", "Queen"}
          /\ LET list == compute_legal_moves_on_square(Game, sq)
             IN  /\ \E i \in DOMAIN list : list[i].capture # None
                 /\ \E i \in DOMAIN list : list[i].capture = None
          /\ \E dir \in DirectionSet(board[sq[1]][sq[2]].piece_type) :
                /\ is_valid_square(Step(sq, dir, 1))
                /\ board[Step(sq, dir, 1)[1]][Step(sq, dir, 1)[2]].color = turn

\* The indices of the cached list of from whose entry goes to to.
Matches(from, to) ==
    { i \in DOMAIN legal_moves_on_square(from) :
        legal_moves_on_square(from)[i].to = to }

\* The entry request_move(from, to) is to commit: the first one in list order.
FirstEntry(from, to) ==
    legal_moves_on_square(from)[
        CHOOSE i \in Matches(from, to) : \A j \in Matches(from, to) : i <= j]

\* C23: when the cached list of from has several entries with destination to,
\* request_move(from, to) returns true, lengthens the history by one move and
\* that move is the first of those entries; for promotion variants it is the
\* Queen variant.
C23_FirstMatchingEntryIsCommitted ==
    ~fault =>
        \A from \in Squares, to \in Squares :
            Cardinality(Matches(from, to)) >= 2 =>
                LET r == request_move(Game, from, to)
                IN  /\ r.ok
                    /\ ~r.self.fault =>
                          /\ r.self.moves = Append(moves, FirstEntry(from, to))
                          /\ FirstEntry(from, to).promotion \in {None, "Queen"}

\* C23 witness: a square has two entries with one destination, promotion
\* variants, and the request for it commits.
C23_Witness ==
    /\ ~fault
    /\ \E from \in Squares, to \in Squares :
          /\ Cardinality(Matches(from, to)) >= 2
          /\ FirstEntry(from, to).promotion # None
          /\ ~request_move(Game, from, to).self.fault

\* The probe of candidate c on the game self: make_move adds one move to the
\* history, the regeneration inside the probe adds none and fills the table
\* with the unfiltered pseudo-legal lists, and the probe returns with the
\* history of self.
ProbeIsShallow(self, c) ==
    LET made == make_move(self, c)
        generated == with_pseudo_legal_table(made)
        v == validate_move(self, c).self
    IN  ~made.fault =>
            /\ Len(made.moves) = Len(self.moves) + 1
            /\ generated.moves = made.moves
            /\ \A sq \in Squares :
                  generated.legal_moves[sq[1]][sq[2]]
                      = compute_legal_moves_on_square(made, sq)
            /\ ~v.fault
            /\ v.moves = self.moves

\* C24: during the recomputation of the validated table each probe makes the
\* history one move longer, regenerates pseudo-legal lists only (no probe
\* inside the probe) and returns with the history at its committed length.
C24_ProbesDoNotNest ==
    ~fault =>
        \A sq \in Squares :
            \A i \in DOMAIN compute_legal_moves_on_square(Game, sq) :
                ProbeIsShallow(Game, compute_legal_moves_on_square(Game, sq)[i])

\* C24 witness: the table regenerated inside a probe holds a reply that
\* exposes the replier's own king, which a nested probe would have removed.
C24_Witness ==
    /\ ~fault
    /\ \E sq \in Squares :
          \E i \in DOMAIN compute_legal_moves_on_square(Game, sq) :
              LET made == make_move(Game, compute_legal_moves_on_square(Game, sq)[i])
              IN  /\ ~made.fault
                  /\ \E sq2 \in Squares :
                        \E j \in DOMAIN compute_legal_moves_on_square(made, sq2) :
                            ExposesKing(made,
                                compute_legal_moves_on_square(made, sq2)[j])

\* The squares that hold the king of color.
KingSquares(color) ==
    { sq \in Squares : board[sq[1]][sq[2]] = Piece("King", color) }

\* C25: the board holds exactly one king of each side.
C25_OneKingPerSide ==
    ~fault => \A color \in Colors : Cardinality(KingSquares(color)) = 1

\* C26: a request_move that commits a move which is neither a castle nor an
\* en-passant capture returns with every square other than the move's source
\* and destination holding what it held before the call.
C26_OnlySourceAndDestinationChange ==
    [][(/\ Committed
        /\ Last(moves').castle = None
        /\ Last(moves').en_passant_capture = NoSquare)
       => \A sq \in Squares \ {Last(moves').from, Last(moves').to} :
              board'[sq[1]][sq[2]] = board[sq[1]][sq[2]]]_vars

\* The number of pieces on the board b.
PieceCount(b) == Cardinality({ sq \in Squares : b[sq[1]][sq[2]] # NoPiece })

\* The pieces the move m takes off the board, by its record.
Captured(m) == IF m.capture # None THEN 1 ELSE 0

\* This step is an undo that popped a move and returned.
Undone == Len(moves') = Len(moves) - 1 /\ ~fault'

\* C27: a request_move that commits a move leaves one piece fewer on the board
\* if the move records a capture and as many as before otherwise; an undo
\* gives back what the undone move records as captured.
C27_PiecesLeaveOnlyByCapture ==
    [][/\ Committed =>
              PieceCount(board') = PieceCount(board) - Captured(Last(moves'))
       /\ Undone =>
              PieceCount(board') = PieceCount(board) + Captured(Last(moves))]_vars

\* request_move(q), undo, request_move(q) again: the second request succeeds
\* and returns the game the first one returned.
RedoGivesSameGame(q) ==
    LET first == request_move(Game, q[1], q[2])
        again == request_move(unmake_move_and_recalculate(first.self),
                              q[1], q[2])
    IN  (first.ok /\ ~first.self.fault) =>
            /\ again.ok
            /\ again.self = first.self

\* C28: for every request of the environment that succeeds, undoing it and
\* making it again succeeds and gives the same board, turn, rights, en-passant
\* target, clocks, history and cached table as the first time.
C28_UndoThenRedoIsIdentity ==
    ~fault => \A q \in Requests : RedoGivesSameGame(q)

\* C29: a request_move that commits a capture or a move of a pawn returns with
\* the half-move clock at 0; one that commits any other move, castling on
\* either wing included, with the clock one higher than before.
C29_HalfmoveClockFollowsMove ==
    [][Committed =>
         halfmove_clock'
             = IF \/ Last(moves').capture # None
                  \/ board[Last(moves').from[1]][Last(moves').from[2]].piece_type
                         = "Pawn"
               THEN 0
               ELSE halfmove_clock + 1]_vars

\* Every move of list is stamped with a clock below the top of the u8, so the
\* position it leads to can stamp clock + 1 on its own moves.
StampsBelowMax(list) ==
    \A i \in DOMAIN list : list[i].halfmove_clock < U8_MAX

\* The pseudo-legal moves of every square of self are stamped below the top.
GeneratesBelowMax(self) ==
    \A sq \in Squares : StampsBelowMax(compute_legal_moves_on_square(self, sq))

\* C30: the half-move clock is at most 254 wherever moves are generated: in
\* the current game, in the positions its probes generate replies on (they
\* have the clock their candidate is stamped with) and, for each move of the
\* table, in the positions request_move of that move generates on.
C30_ClockStaysBelowMax ==
    ~fault =>
        /\ halfmove_clock < U8_MAX
        /\ GeneratesBelowMax(Game)
        /\ \A sq \in Squares :
              \A i \in DOMAIN legal_moves_on_square(sq) :
                  LET made == make_move(Game, legal_moves_on_square(sq)[i])
                  IN  ~made.fault => GeneratesBelowMax(made)

====
